---- MODULE Spec2Model ----
(***************************************************************************)
(* A model of builder/resources.py: the Resource dataclass (slug, assets,  *)
(* description_path, description), its from_path factory, the headline     *)
(* image builder and the default-description synthesis, over a content     *)
(* directory whose listing may change between accesses.                    *)
(*                                                                         *)
(* A Python str is a sequence of one-character strings, a pathlib.Path is  *)
(* the sequence of its parts (the root '/' or '//' is the first part of an *)
(* absolute path, and the parts hold no '.' and no empty name), an         *)
(* Optional value is <<>> (None) or <<v>>, and a functools.cached_property *)
(* slot is <<>> (not yet computed) or <<v>> (the stored value).            *)
(*                                                                         *)
(* The filesystem is the root directory, in it the working directory of    *)
(* the process, in it the directory p, in it the content directory A; the  *)
(* entries of the content directory are plain files.                       *)
(***************************************************************************)
EXTENDS Naturals, Sequences, FiniteSets, TLC

VARIABLES
    dir,     \* the listing of the content directory, in listing order
    res,     \* per slot: None, or the Resource instance constructed there
    call,    \* per slot: the constructor call that made the instance
    ret,     \* per slot and property: the value the last successful access returned
    logs,    \* per slot: the 'generating default description' debug entries emitted
    raised   \* per slot: the exception the last access raised, "none" for none

vars == <<dir, res, call, ret, logs, raised>>

(* ------------------------------ bounds --------------------------------- *)

\* the most entries of a content directory that stays as it is
MaxListed == 3

\* the most entries of a content directory that changes
MaxEntries == 2

\* the largest number of 'generating default description' log entries kept
MaxLog == 2

\* the most entries of the directory two resources are compared over
MaxPairEntries == 1

(* ------------------------------- values -------------------------------- *)

None == <<>>

Some(v) == <<v>>

(* ------------------------ xml.etree (library) -------------------------- *)

\* the entities XML predefines, each with the character it stands for
Entities ==
    { [name |-> <<"a", "m", "p">>, char |-> "&"],
      [name |-> <<"l", "t">>, char |-> "<"],
      [name |-> <<"g", "t">>, char |-> ">"],
      [name |-> <<"a", "p", "o", "s">>, char |-> "'"],
      [name |-> <<"q", "u", "o", "t">>, char |-> "\""] }

StartsWith(s, i, t) == i + Len(t) - 1 <= Len(s) /\ SubSeq(s, i, i + Len(t) - 1) = t

\* the position of the first c in s at or after i, 0 when there is none
RECURSIVE Find(_, _, _)
Find(s, c, i) ==
    IF i > Len(s) THEN 0
    ELSE IF s[i] = c THEN i
    ELSE Find(s, c, i + 1)

HexDigits == <<"0", "1", "2", "3", "4", "5", "6", "7", "8", "9", "a", "b", "c", "d", "e", "f">>

UpperHexDigits == <<"0", "1", "2", "3", "4", "5", "6", "7", "8", "9", "A", "B", "C", "D", "E", "F">>

IsDigit(c, base) ==
    \E k \in 1..base : HexDigits[k] = c \/ UpperHexDigits[k] = c

DigitValue(c) ==
    (CHOOSE k \in 1..Len(HexDigits) : HexDigits[k] = c \/ UpperHexDigits[k] = c) - 1

\* one more than the largest code point: a number this large names no character
CodeLimit == 1114112

\* the number the digits t[1..n] write in that base, CodeLimit when it is that or more
RECURSIVE Number(_, _, _)
Number(t, n, base) ==
    IF n = 0 THEN 0
    ELSE IF Number(t, n - 1, base) * base + DigitValue(t[n]) >= CodeLimit THEN CodeLimit
    ELSE Number(t, n - 1, base) * base + DigitValue(t[n])

\* the characters of code 32 to 95
Ascii ==
    <<" ", "!", "\"", "#", "$", "%", "&", "'", "(", ")", "*", "+", ",", "-", ".", "/",
      "0", "1", "2", "3", "4", "5", "6", "7", "8", "9", ":", ";", "<", "=", ">", "?",
      "@", "A", "B", "C", "D", "E", "F", "G", "H", "I", "J", "K", "L", "M", "N", "O",
      "P", "Q", "R", "S", "T", "U", "V", "W", "X", "Y", "Z", "[", "\\", "]", "^", "_">>

\* the characters of code 97 to 126
AsciiLower ==
    <<"a", "b", "c", "d", "e", "f", "g", "h", "i", "j", "k", "l", "m", "n", "o",
      "p", "q", "r", "s", "t", "u", "v", "w", "x", "y", "z", "{", "|", "}", "~">>

\* whether XML allows the character of code n
IsXmlChar(n) ==
    \/ n \in {9, 10, 13}
    \/ (32 <= n /\ n <= 55295)
    \/ (57344 <= n /\ n <= 65533)
    \/ (65536 <= n /\ n < CodeLimit)

\* the character of code n; one outside the tables is written U+n
CharOfCode(n) ==
    IF 32 <= n /\ n <= 95 THEN Ascii[n - 31]
    ELSE IF 97 <= n /\ n <= 126 THEN AsciiLower[n - 96]
    ELSE IF n = 9 THEN "\t"
    ELSE IF n = 10 THEN "\n"
    ELSE IF n = 13 THEN "\r"
    ELSE "U+" \o ToString(n)

\* the character reference whose digits are t, in that base
NumericReference(t, base) ==
    IF t # <<>> /\ (\A k \in 1..Len(t) : IsDigit(t[k], base)) /\ IsXmlChar(Number(t, Len(t), base))
    THEN [ok |-> TRUE, char |-> CharOfCode(Number(t, Len(t), base))]
    ELSE [ok |-> FALSE, char |-> ""]

\* what stands between '&' and ';': an entity XML predefines, '#' and
\* decimal digits, or '#x' and hexadecimal digits; anything else is an error
ReferenceNamed(name) ==
    IF \E e \in Entities : e.name = name
    THEN [ok |-> TRUE, char |-> (CHOOSE e \in Entities : e.name = name).char]
    ELSE IF StartsWith(name, 1, <<"#", "x">>) THEN NumericReference(SubSeq(name, 3, Len(name)), 16)
    ELSE IF StartsWith(name, 1, <<"#">>) THEN NumericReference(SubSeq(name, 2, Len(name)), 10)
    ELSE [ok |-> FALSE, char |-> ""]

\* the reference that starts with the '&' at position i of s, its ';' at position semi
ReferenceAt(s, i, semi) ==
    IF semi = 0 THEN [ok |-> FALSE, char |-> ""]
    ELSE ReferenceNamed(SubSeq(s, i + 1, semi - 1))

(* characters *)

AsciiLetters == {Ascii[k] : k \in 34..59} \cup {AsciiLower[k] : k \in 1..26}

AsciiDigits == {Ascii[k] : k \in 17..26}

\* the characters this model writes as themselves
AsciiChars ==
    {Ascii[k] : k \in 1..Len(Ascii)} \cup {AsciiLower[k] : k \in 1..Len(AsciiLower)}
        \cup {"\t", "\n", "\r"}

\* the white space of XML markup
WhiteSpace == {" ", "\t", "\n", "\r"}

\* the characters a Python str can hold that XML does not allow in a document
ForbiddenLiterals == {CharOfCode(n) : n \in ((0..31) \ {9, 10, 13}) \cup {65534, 65535}}

\* the surrogates: a str that holds one cannot be encoded for the parser
Surrogates == {CharOfCode(n) : n \in 55296..57343}

\* the code points beyond ASCII that start a name (the Letter production)
LetterRanges ==
    <<<<192, 214>>, <<216, 246>>, <<248, 305>>, <<308, 318>>, <<321, 328>>, <<330, 382>>,
      <<384, 451>>, <<461, 496>>, <<500, 501>>, <<506, 535>>, <<592, 680>>, <<699, 705>>,
      <<902, 902>>, <<904, 906>>, <<908, 908>>, <<910, 929>>, <<931, 974>>, <<976, 982>>,
      <<986, 986>>, <<988, 988>>, <<990, 990>>, <<992, 992>>, <<994, 1011>>, <<1025, 1036>>,
      <<1038, 1103>>, <<1105, 1116>>, <<1118, 1153>>, <<1168, 1220>>, <<1223, 1224>>,
      <<1227, 1228>>, <<1232, 1259>>, <<1262, 1269>>, <<1272, 1273>>, <<1329, 1366>>,
      <<1369, 1369>>, <<1377, 1414>>, <<1488, 1514>>, <<1520, 1522>>, <<1569, 1594>>,
      <<1601, 1610>>, <<1649, 1719>>, <<1722, 1726>>, <<1728, 1742>>, <<1744, 1747>>,
      <<1749, 1749>>, <<1765, 1766>>, <<2309, 2361>>, <<2365, 2365>>, <<2392, 2401>>,
      <<2437, 2444>>, <<2447, 2448>>, <<2451, 2472>>, <<2474, 2480>>, <<2482, 2482>>,
      <<2486, 2489>>, <<2524, 2525>>, <<2527, 2529>>, <<2544, 2545>>, <<2565, 2570>>,
      <<2575, 2576>>, <<2579, 2600>>, <<2602, 2608>>, <<2610, 2611>>, <<2613, 2614>>,
      <<2616, 2617>>, <<2649, 2652>>, <<2654, 2654>>, <<2674, 2676>>, <<2693, 2699>>,
      <<2701, 2701>>, <<2703, 2705>>, <<2707, 2728>>, <<2730, 2736>>, <<2738, 2739>>,
      <<2741, 2745>>, <<2749, 2749>>, <<2784, 2784>>, <<2821, 2828>>, <<2831, 2832>>,
      <<2835, 2856>>, <<2858, 2864>>, <<2866, 2867>>, <<2870, 2873>>, <<2877, 2877>>,
      <<2908, 2909>>, <<2911, 2913>>, <<2949, 2954>>, <<2958, 2960>>, <<2962, 2965>>,
      <<2969, 2970>>, <<2972, 2972>>, <<2974, 2975>>, <<2979, 2980>>, <<2984, 2986>>,
      <<2990, 2997>>, <<2999, 3001>>, <<3077, 3084>>, <<3086, 3088>>, <<3090, 3112>>,
      <<3114, 3123>>, <<3125, 3129>>, <<3168, 3169>>, <<3205, 3212>>, <<3214, 3216>>,
      <<3218, 3240>>, <<3242, 3251>>, <<3253, 3257>>, <<3294, 3294>>, <<3296, 3297>>,
      <<3333, 3340>>, <<3342, 3344>>, <<3346, 3368>>, <<3370, 3385>>, <<3424, 3425>>,
      <<3585, 3630>>, <<3632, 3632>>, <<3634, 3635>>, <<3648, 3653>>, <<3713, 3714>>,
      <<3716, 3716>>, <<3719, 3720>>, <<3722, 3722>>, <<3725, 3725>>, <<3732, 3735>>,
      <<3737, 3743>>, <<3745, 3747>>, <<3749, 3749>>, <<3751, 3751>>, <<3754, 3755>>,
      <<3757, 3758>>, <<3760, 3760>>, <<3762, 3763>>, <<3773, 3773>>, <<3776, 3780>>,
      <<3904, 3911>>, <<3913, 3945>>, <<4256, 4293>>, <<4304, 4342>>, <<4352, 4352>>,
      <<4354, 4355>>, <<4357, 4359>>, <<4361, 4361>>, <<4363, 4364>>, <<4366, 4370>>,
      <<4412, 4412>>, <<4414, 4414>>, <<4416, 4416>>, <<4428, 4428>>, <<4430, 4430>>,
      <<4432, 4432>>, <<4436, 4437>>, <<4441, 4441>>, <<4447, 4449>>, <<4451, 4451>>,
      <<4453, 4453>>, <<4455, 4455>>, <<4457, 4457>>, <<4461, 4462>>, <<4466, 4467>>,
      <<4469, 4469>>, <<4510, 4510>>, <<4520, 4520>>, <<4523, 4523>>, <<4526, 4527>>,
      <<4535, 4536>>, <<4538, 4538>>, <<4540, 4546>>, <<4587, 4587>>, <<4592, 4592>>,
      <<4601, 4601>>, <<7680, 7835>>, <<7840, 7929>>, <<7936, 7957>>, <<7960, 7965>>,
      <<7968, 8005>>, <<8008, 8013>>, <<8016, 8023>>, <<8025, 8025>>, <<8027, 8027>>,
      <<8029, 8029>>, <<8031, 8061>>, <<8064, 8116>>, <<8118, 8124>>, <<8126, 8126>>,
      <<8130, 8132>>, <<8134, 8140>>, <<8144, 8147>>, <<8150, 8155>>, <<8160, 8172>>,
      <<8178, 8180>>, <<8182, 8188>>, <<8486, 8486>>, <<8490, 8491>>, <<8494, 8494>>,
      <<8576, 8578>>, <<12295, 12295>>, <<12321, 12329>>, <<12353, 12436>>, <<12449, 12538>>,
      <<12549, 12588>>, <<19968, 40869>>, <<44032, 55203>>>>

\* the code points beyond ASCII that continue a name without starting one
\* (the CombiningChar, Digit and Extender productions)
NameExtraRanges ==
    <<<<183, 183>>, <<720, 721>>, <<768, 837>>, <<864, 865>>, <<903, 903>>, <<1155, 1158>>,
      <<1425, 1441>>, <<1443, 1465>>, <<1467, 1469>>, <<1471, 1471>>, <<1473, 1474>>,
      <<1476, 1476>>, <<1600, 1600>>, <<1611, 1618>>, <<1632, 1641>>, <<1648, 1648>>,
      <<1750, 1764>>, <<1767, 1768>>, <<1770, 1773>>, <<1776, 1785>>, <<2305, 2307>>,
      <<2364, 2364>>, <<2366, 2381>>, <<2385, 2388>>, <<2402, 2403>>, <<2406, 2415>>,
      <<2433, 2435>>, <<2492, 2492>>, <<2494, 2500>>, <<2503, 2504>>, <<2507, 2509>>,
      <<2519, 2519>>, <<2530, 2531>>, <<2534, 2543>>, <<2562, 2562>>, <<2620, 2620>>,
      <<2622, 2626>>, <<2631, 2632>>, <<2635, 2637>>, <<2662, 2673>>, <<2689, 2691>>,
      <<2748, 2748>>, <<2750, 2757>>, <<2759, 2761>>, <<2763, 2765>>, <<2790, 2799>>,
      <<2817, 2819>>, <<2876, 2876>>, <<2878, 2883>>, <<2887, 2888>>, <<2891, 2893>>,
      <<2902, 2903>>, <<2918, 2927>>, <<2946, 2947>>, <<3006, 3010>>, <<3014, 3016>>,
      <<3018, 3021>>, <<3031, 3031>>, <<3047, 3055>>, <<3073, 3075>>, <<3134, 3140>>,
      <<3142, 3144>>, <<3146, 3149>>, <<3157, 3158>>, <<3174, 3183>>, <<3202, 3203>>,
      <<3262, 3268>>, <<3270, 3272>>, <<3274, 3277>>, <<3285, 3286>>, <<3302, 3311>>,
      <<3330, 3331>>, <<3390, 3395>>, <<3398, 3400>>, <<3402, 3405>>, <<3415, 3415>>,
      <<3430, 3439>>, <<3633, 3633>>, <<3636, 3642>>, <<3654, 3662>>, <<3664, 3673>>,
      <<3761, 3761>>, <<3764, 3769>>, <<3771, 3772>>, <<3782, 3782>>, <<3784, 3789>>,
      <<3792, 3801>>, <<3864, 3865>>, <<3872, 3881>>, <<3893, 3893>>, <<3895, 3895>>,
      <<3897, 3897>>, <<3902, 3903>>, <<3953, 3972>>, <<3974, 3979>>, <<3984, 3989>>,
      <<3991, 3991>>, <<3993, 4013>>, <<4017, 4023>>, <<4025, 4025>>, <<8400, 8412>>,
      <<8417, 8417>>, <<12293, 12293>>, <<12330, 12335>>, <<12337, 12341>>, <<12441, 12442>>,
      <<12445, 12446>>, <<12540, 12542>>>>

\* whether c is the character of a code point in one of the ranges
InRanges(c, ranges) ==
    \E k \in 1..Len(ranges) : \E n \in ranges[k][1]..ranges[k][2] : c = CharOfCode(n)

\* the first character of a name; the parser reads names with namespaces
\* on, so a ':' is no part of one
IsNameStart(c) ==
    \/ c \in AsciiLetters
    \/ c = "_"
    \/ (c \notin AsciiChars /\ InRanges(c, LetterRanges))

IsNameChar(c) ==
    \/ c \in AsciiLetters
    \/ c \in AsciiDigits
    \/ c \in {"_", "-", "."}
    \/ (c \notin AsciiChars /\ (InRanges(c, LetterRanges) \/ InRanges(c, NameExtraRanges)))

(* scanning *)

\* the text with every line end (CR LF, or CR alone) made a newline, as the
\* parser reads its input
RECURSIVE NormalizeLineEnds(_, _)
NormalizeLineEnds(s, i) ==
    IF i > Len(s) THEN <<>>
    ELSE IF s[i] = "\r"
    THEN <<"\n">> \o NormalizeLineEnds(s, IF StartsWith(s, i + 1, <<"\n">>) THEN i + 2 ELSE i + 1)
    ELSE <<s[i]>> \o NormalizeLineEnds(s, i + 1)

\* the first position at or after i that holds no white space
RECURSIVE SkipSpace(_, _)
SkipSpace(s, i) ==
    IF i <= Len(s) /\ s[i] \in WhiteSpace THEN SkipSpace(s, i + 1) ELSE i

\* the first position at or after i that holds no name character
RECURSIVE SkipName(_, _)
SkipName(s, i) ==
    IF i <= Len(s) /\ IsNameChar(s[i]) THEN SkipName(s, i + 1) ELSE i

\* the position after the name without colon that starts at i, i when none does
NCNameEnd(s, i) ==
    IF i <= Len(s) /\ IsNameStart(s[i]) THEN SkipName(s, i + 1) ELSE i

\* the end e of a first part, extended over ':' and a second part when one follows
QNameRest(s, i, e) ==
    IF e > i /\ e <= Len(s) /\ s[e] = ":" /\ NCNameEnd(s, e + 1) > e + 1
    THEN NCNameEnd(s, e + 1)
    ELSE e

\* the position after the qualified name (name, or prefix:name) that starts
\* at i, i when none does
QNameEnd(s, i) == QNameRest(s, i, NCNameEnd(s, i))

\* the first position at or after i where t stands in s, 0 when there is none
RECURSIVE FindSeq(_, _, _)
FindSeq(s, t, i) ==
    IF i + Len(t) - 1 > Len(s) THEN 0
    ELSE IF StartsWith(s, i, t) THEN i
    ELSE FindSeq(s, t, i + 1)

\* whether s[i..j] holds only characters XML allows
AllAllowed(s, i, j) == \A k \in i..j : s[k] \notin ForbiddenLiterals

(* attributes *)

NoValue == [ok |-> FALSE, next |-> 0, value |-> <<>>]

\* character c in front of the rest of an attribute value
PrependValue(c, rest) == IF rest.ok THEN [rest EXCEPT !.value = <<c>> \o @] ELSE NoValue

\* The value of an attribute from position i up to the quote q that closes
\* it: a reference is replaced by its character, a literal tab or newline by
\* a space, and a '<' is not well-formed.
RECURSIVE AttValue(_, _, _)
AttValue(s, i, q) ==
    IF i > Len(s) THEN NoValue
    ELSE IF s[i] = q THEN [ok |-> TRUE, next |-> i + 1, value |-> <<>>]
    ELSE IF s[i] = "<" \/ s[i] \in ForbiddenLiterals THEN NoValue
    ELSE IF s[i] = "&" THEN
        IF ReferenceAt(s, i, Find(s, ";", i + 1)).ok
        THEN PrependValue(ReferenceAt(s, i, Find(s, ";", i + 1)).char,
                          AttValue(s, Find(s, ";", i + 1) + 1, q))
        ELSE NoValue
    ELSE IF s[i] \in {"\t", "\n"} THEN PrependValue(" ", AttValue(s, i + 1, q))
    ELSE PrependValue(s[i], AttValue(s, i + 1, q))

NoAttributes == [ok |-> FALSE, next |-> 0, empty |-> FALSE, attrs |-> <<>>]

\* the attribute (name, value) in front of the rest of a tag
PrependAttribute(name, value, rest) ==
    IF rest.ok THEN [rest EXCEPT !.attrs = << <<name, value>> >> \o @] ELSE NoAttributes

RECURSIVE Attributes(_, _)

\* the attribute named name with value v, and the rest of the tag
AttributeValued(s, name, v) ==
    IF v.ok THEN PrependAttribute(name, v.value, Attributes(s, v.next)) ELSE NoAttributes

\* the quoted value expected at k
AttributeQuoted(s, name, k) ==
    IF k <= Len(s) /\ s[k] \in {"\"", "'"}
    THEN AttributeValued(s, name, AttValue(s, k + 1, s[k]))
    ELSE NoAttributes

\* the '=' expected at k
AttributeEq(s, name, k) ==
    IF k <= Len(s) /\ s[k] = "=" THEN AttributeQuoted(s, name, SkipSpace(s, k + 1))
    ELSE NoAttributes

\* the attribute whose name is s[j..e-1]
Attribute(s, j, e) ==
    IF e > j THEN AttributeEq(s, SubSeq(s, j, e - 1), SkipSpace(s, e)) ELSE NoAttributes

\* what stands at j, after the white space that followed position i
AttributesAt(s, i, j) ==
    IF j > Len(s) THEN NoAttributes
    ELSE IF s[j] = ">" THEN [ok |-> TRUE, next |-> j + 1, empty |-> FALSE, attrs |-> <<>>]
    ELSE IF StartsWith(s, j, <<"/", ">">>)
    THEN [ok |-> TRUE, next |-> j + 2, empty |-> TRUE, attrs |-> <<>>]
    ELSE IF j = i THEN NoAttributes
    ELSE Attribute(s, j, QNameEnd(s, j))

\* The rest of a start tag from position i, which follows the element's
\* name or an attribute's value: attributes, each after white space, then
\* '>' or '/>'. empty tells which; next is the position after the tag.
Attributes(s, i) == AttributesAt(s, i, SkipSpace(s, i))

(* namespaces *)

XmlPrefix == <<"x", "m", "l">>

XmlnsPrefix == <<"x", "m", "l", "n", "s">>

\* the namespace the prefix xml is bound to
XmlNamespace ==
    <<"h", "t", "t", "p", ":", "/", "/", "w", "w", "w", ".", "w", "3", ".", "o", "r", "g", "/",
      "X", "M", "L", "/", "1", "9", "9", "8", "/", "n", "a", "m", "e", "s", "p", "a", "c", "e">>

\* the namespace of the prefix xmlns
XmlnsNamespace ==
    <<"h", "t", "t", "p", ":", "/", "/", "w", "w", "w", ".", "w", "3", ".", "o", "r", "g", "/",
      "2", "0", "0", "0", "/", "x", "m", "l", "n", "s", "/">>

\* the part of a qualified name before its ':', empty when it has none
PrefixOf(q) == IF Find(q, ":", 1) = 0 THEN <<>> ELSE SubSeq(q, 1, Find(q, ":", 1) - 1)

\* the part of a qualified name after its ':'
LocalOf(q) == SubSeq(q, Find(q, ":", 1) + 1, Len(q))

\* whether the attribute a declares a namespace
IsDeclaration(a) == a[1] = XmlnsPrefix \/ PrefixOf(a[1]) = XmlnsPrefix

IsNoDeclaration(a) == ~IsDeclaration(a)

\* the prefix a declaration binds (empty: the default namespace) and its name
Binding(a) == << IF a[1] = XmlnsPrefix THEN <<>> ELSE LocalOf(a[1]), a[2] >>

\* whether the parser accepts the binding: xml is bound to its own namespace
\* and nothing else is, xmlns is never bound, a prefix is never unbound, and
\* the name holds no '}' (the separator the parser reports names with)
BindingAllowed(b) ==
    /\ b[1] # XmlnsPrefix
    /\ b[1] = XmlPrefix <=> b[2] = XmlNamespace
    /\ b[2] # XmlnsNamespace
    /\ b[1] # <<>> => b[2] # <<>>
    /\ Find(b[2], "}", 1) = 0

\* the namespace the bindings ns give prefix p: the last bound, None when unbound
Lookup(ns, p) ==
    IF \E k \in 1..Len(ns) : ns[k][1] = p
    THEN Some(ns[CHOOSE k \in 1..Len(ns) :
                     ns[k][1] = p /\ \A j \in (k + 1)..Len(ns) : ns[j][1] # p][2])
    ELSE None

\* the characters of t as one string
RECURSIVE Join(_, _)
Join(t, n) == IF n = 0 THEN "" ELSE Join(t, n - 1) \o t[n]

\* the name ElementTree gives local in the namespace uri
Qualified(uri, local) ==
    IF uri = <<>> THEN Join(local, Len(local))
    ELSE "{" \o Join(uri, Len(uri)) \o "}" \o Join(local, Len(local))

\* whether the bindings ns resolve the qualified name q
Resolves(ns, q) == PrefixOf(q) = <<>> \/ Lookup(ns, PrefixOf(q)) # None

\* the tag of the element written q: in the default namespace when q has no prefix
ElementName(ns, q) ==
    IF PrefixOf(q) # <<>> THEN Qualified(Lookup(ns, PrefixOf(q))[1], LocalOf(q))
    ELSE IF Lookup(ns, <<>>) = None THEN Qualified(<<>>, q)
    ELSE Qualified(Lookup(ns, <<>>)[1], q)

\* the name of the attribute written q: in no namespace when q has no prefix
AttributeName(ns, q) ==
    IF PrefixOf(q) # <<>> THEN Qualified(Lookup(ns, PrefixOf(q))[1], LocalOf(q))
    ELSE Qualified(<<>>, q)

\* whether no two of the pairs have the same first component
Distinct(pairs) ==
    \A j, k \in 1..Len(pairs) : j # k => pairs[j][1] # pairs[k][1]

\* the bindings in scope in an element with the attributes attrs, outer
\* being those of its parent
Scope(outer, attrs) ==
    outer \o [k \in 1..Len(SelectSeq(attrs, IsDeclaration))
                  |-> Binding(SelectSeq(attrs, IsDeclaration)[k])]

\* the attrib of an element: its attributes that declare no namespace, under
\* the names ElementTree gives them
Attrib(ns, attrs) ==
    [k \in 1..Len(SelectSeq(attrs, IsNoDeclaration))
        |-> << AttributeName(ns, SelectSeq(attrs, IsNoDeclaration)[k][1]),
               SelectSeq(attrs, IsNoDeclaration)[k][2] >>]

\* whether a start tag q with the attributes attrs is well-formed, ns being
\* the bindings in scope in it
TagAllowed(ns, q, attrs) ==
    /\ Distinct(attrs)
    /\ \A k \in 1..Len(attrs) : IsDeclaration(attrs[k]) => BindingAllowed(Binding(attrs[k]))
    /\ Resolves(ns, q)
    /\ \A k \in 1..Len(attrs) : IsDeclaration(attrs[k]) \/ Resolves(ns, attrs[k][1])
    /\ Distinct(Attrib(ns, attrs))

(* the tree *)

\* an ElementTree element: attrib is the sequence of its (name, value) pairs
Element(tag, attrib, text, children) ==
    [tag |-> tag, attrib |-> attrib, text |-> text, tail |-> None, children |-> children]

\* Element.get(name): the attribute's value, None when it is not set
Attr(e, name) ==
    IF \E k \in 1..Len(e.attrib) : e.attrib[k][1] = name
    THEN Some(e.attrib[CHOOSE k \in 1..Len(e.attrib) : e.attrib[k][1] = name][2])
    ELSE None

\* The tree builder: stack holds the open elements, outermost first, each
\* with the name its tag was written with and the bindings in scope in it;
\* buf is the character data not yet stored; tail tells whether it goes to
\* the tail of the element closed last or to the text of the innermost open
\* one; root is the document element once it is closed.
NoTree == [stack |-> <<>>, buf |-> <<>>, tail |-> FALSE, root |-> None]

\* the bindings in scope in the innermost open element
BindingsOf(st) ==
    IF st.stack = <<>> THEN << <<XmlPrefix, XmlNamespace>> >>
    ELSE st.stack[Len(st.stack)].ns

\* the pending character data is stored
Flush(st) ==
    IF st.buf = <<>> \/ st.stack = <<>> THEN [st EXCEPT !.buf = <<>>]
    ELSE IF st.tail
    THEN [st EXCEPT !.stack[Len(st.stack)].elem.children[Len(st.stack[Len(st.stack)].elem.children)].tail
                        = Some(st.buf),
                    !.buf = <<>>]
    ELSE [st EXCEPT !.stack[Len(st.stack)].elem.text = Some(st.buf), !.buf = <<>>]

\* an element opens in the flushed builder st
Opened(st, q, tag, attrib, ns) ==
    [st EXCEPT !.stack = Append(@, [qname |-> q, ns |-> ns, elem |-> Element(tag, attrib, None, <<>>)]),
               !.tail = FALSE]

\* the innermost open element closes in the flushed builder st
Closed(st) ==
    IF Len(st.stack) = 1
    THEN [st EXCEPT !.stack = <<>>, !.tail = TRUE, !.root = Some(st.stack[1].elem)]
    ELSE [st EXCEPT !.stack = [k \in 1..(Len(st.stack) - 1) |->
                                  IF k = Len(st.stack) - 1
                                  THEN [st.stack[k] EXCEPT !.elem.children =
                                           Append(@, st.stack[Len(st.stack)].elem)]
                                  ELSE st.stack[k]],
                    !.tail = TRUE]

\* the builder after a start tag q with those attributes, ns being the
\* bindings in scope in the element
StartElement(st, q, a, ns) ==
    IF a.empty
    THEN Closed(Opened(Flush(st), q, ElementName(ns, q), Attrib(ns, a.attrs), ns))
    ELSE Opened(Flush(st), q, ElementName(ns, q), Attrib(ns, a.attrs), ns)

(* the document *)

\* the parser raises ParseError
NotWellFormed == [ok |-> FALSE, error |-> "ParseError", root |-> None]

RECURSIVE Content(_, _, _)

\* a comment that opened at i, e being where its first '--' stands
Comment(s, i, st, e) ==
    IF e # 0 /\ StartsWith(s, e, <<"-", "-", ">">>) /\ AllAllowed(s, i + 4, e - 1)
    THEN Content(s, e + 3, st)
    ELSE NotWellFormed

\* a processing instruction that opened at i, t being where its target
\* ends: '?>' follows, or white space and data up to the first '?>'; the
\* target may not be 'xml' in any case of letters
Target(s, i, st, t) ==
    IF \/ t = i + 2
       \/ SubSeq(s, i + 2, t - 1) \in {"x", "X"} \X {"m", "M"} \X {"l", "L"}
    THEN NotWellFormed
    ELSE IF StartsWith(s, t, <<"?", ">">>) THEN Content(s, t + 2, st)
    ELSE IF /\ t <= Len(s) /\ s[t] \in WhiteSpace
            /\ FindSeq(s, <<"?", ">">>, t + 1) # 0
            /\ AllAllowed(s, t + 1, FindSeq(s, <<"?", ">">>, t + 1) - 1)
    THEN Content(s, FindSeq(s, <<"?", ">">>, t + 1) + 2, st)
    ELSE NotWellFormed

\* a CDATA section that opened at i, e being where ']]>' stands: its
\* characters are character data as they are
CData(s, i, st, e) ==
    IF st.stack # <<>> /\ e # 0 /\ AllAllowed(s, i + 9, e - 1)
    THEN Content(s, e + 3, [st EXCEPT !.buf = @ \o SubSeq(s, i + 9, e - 1)])
    ELSE NotWellFormed

\* an end tag that opened at i, e being where its name ends: the name is the
\* one the innermost open element was written with, and '>' follows it,
\* after white space or none
EndTag(s, i, st, e) ==
    IF /\ st.stack # <<>> /\ e # i + 2
       /\ SkipSpace(s, e) <= Len(s) /\ s[SkipSpace(s, e)] = ">"
       /\ SubSeq(s, i + 2, e - 1) = st.stack[Len(st.stack)].qname
    THEN Content(s, SkipSpace(s, e) + 1, Closed(Flush(st)))
    ELSE NotWellFormed

\* a start tag named q whose attributes a are read
StartTagRead(s, st, q, a) ==
    IF a.ok /\ TagAllowed(Scope(BindingsOf(st), a.attrs), q, a.attrs)
    THEN Content(s, a.next, StartElement(st, q, a, Scope(BindingsOf(st), a.attrs)))
    ELSE NotWellFormed

\* a start tag that opened at i, e being where its name ends; nothing but
\* the document element opens outside an element
StartTag(s, i, st, e) ==
    IF e = i + 1 \/ (st.stack = <<>> /\ st.root # None) THEN NotWellFormed
    ELSE StartTagRead(s, st, SubSeq(s, i + 1, e - 1), Attributes(s, e))

\* a reference in character data, r being what it stands for and semi where its ';' is
Reference(s, st, r, semi) ==
    IF r.ok THEN Content(s, semi + 1, [st EXCEPT !.buf = Append(@, r.char)])
    ELSE NotWellFormed

\* The document s from position i on, as the parser reads it into the
\* builder st: tags, comments, processing instructions and CDATA sections
\* are markup, comments and processing instructions leave nothing in the
\* tree, and everything else inside an element is character data, in which
\* a reference is replaced by its character and ']]>' is not well-formed.
\* Outside the document element only white space, comments and processing
\* instructions may stand.
Content(s, i, st) ==
    IF i > Len(s) THEN
        IF st.stack = <<>> /\ st.root # None
        THEN [ok |-> TRUE, error |-> "none", root |-> st.root[1]]
        ELSE NotWellFormed
    ELSE IF StartsWith(s, i, <<"<", "!", "-", "-">>)
    THEN Comment(s, i, st, FindSeq(s, <<"-", "-">>, i + 4))
    ELSE IF StartsWith(s, i, <<"<", "?">>) THEN Target(s, i, st, NCNameEnd(s, i + 2))
    ELSE IF StartsWith(s, i, <<"<", "!", "[", "C", "D", "A", "T", "A", "[">>)
    THEN CData(s, i, st, FindSeq(s, <<"]", "]", ">">>, i + 9))
    ELSE IF StartsWith(s, i, <<"<", "/">>) THEN EndTag(s, i, st, QNameEnd(s, i + 2))
    ELSE IF s[i] = "<" THEN StartTag(s, i, st, QNameEnd(s, i + 1))
    ELSE IF st.stack = <<>> THEN
        IF s[i] \in WhiteSpace THEN Content(s, i + 1, st) ELSE NotWellFormed
    ELSE IF s[i] = "&"
    THEN Reference(s, st, ReferenceAt(s, i, Find(s, ";", i + 1)), Find(s, ";", i + 1))
    ELSE IF StartsWith(s, i, <<"]", "]", ">">>) \/ s[i] \in ForbiddenLiterals THEN NotWellFormed
    ELSE Content(s, i + 1, [st EXCEPT !.buf = Append(@, s[i])])

\* the text line 77 puts in front of the slug
BeforeSlug ==
    <<"<", "h", "t", "m", "l", ">", "<", "s", "e", "c", "t", "i", "o", "n", ">", "<", "h", "1",
      ">">>

\* the text line 77 puts after the slug
AfterSlug ==
    <<"<", "/", "h", "1", ">", "<", "/", "s", "e", "c", "t", "i", "o", "n", ">", "<", "/", "h",
      "t", "m", "l", ">">>

\* ET.fromstring(f'<html><section><h1>{slug}</h1></section></html>'): the
\* document element, or the error raised; a str that holds a surrogate is
\* not encoded, any other that is no well-formed document is a ParseError
FromString(slug) ==
    IF \E k \in 1..Len(slug) : slug[k] \in Surrogates
    THEN [ok |-> FALSE, error |-> "UnicodeEncodeError", root |-> None]
    ELSE Content(NormalizeLineEnds(BeforeSlug \o slug \o AfterSlug, 1), 1, NoTree)


(* ------------------------------- names --------------------------------- *)

\* the file names the code spells out
IndexMd == <<"i", "n", "d", "e", "x", ".", "m", "d">>

\* '.md': the extension of lines 48 and 55, the ending {slug} gets in line
\* 61, and the pattern of line 63
DotMd == <<".", "m", "d">>

HtmlSuffix == <<".", "h", "t", "m", "l">>

\* the other directory entries of the model
SlugMd == <<"a", ".", "m", "d">>

APng == <<"A", ".", "p", "n", "g">>

AJpg == <<"a", ".", "j", "p", "g">>

CJpg == <<"c", ".", "j", "p", "g">>

XHtml == <<"x", ".", "h", "t", "m", "l">>

\* the names an entry of the directory takes: with extension '.md' (index.md,
\* a.md), '.html' (x.html), none ('.md', a dot-file) and other (A.png, a.jpg,
\* c.jpg)
Names == {IndexMd, SlugMd, DotMd, APng, AJpg, CJpg, XHtml}

\* the content directory p/A, as the program is given it
DirPath == << <<"p">>, <<"A">> >>

(* -------------------------- pathlib (library) -------------------------- *)

\* str.rfind: the last position of c in s at or before i, 0 when there is none
RECURSIVE RFind(_, _, _)
RFind(s, c, i) ==
    IF i = 0 THEN 0
    ELSE IF s[i] = c THEN i
    ELSE RFind(s, c, i - 1)

\* PurePath.suffix of a final component: name[i:] when 0 < i < len(name) - 1
Suffix(name) ==
    LET j == RFind(name, ".", Len(name))
    IN  IF 1 < j /\ j < Len(name) THEN SubSeq(name, j, Len(name)) ELSE <<>>

\* PurePath.stem of a final component: name[:i] under the same condition
Stem(name) ==
    LET j == RFind(name, ".", Len(name))
    IN  IF 1 < j /\ j < Len(name) THEN SubSeq(name, 1, j - 1) ELSE name

\* whether path p is absolute: its first part is a root, '/' or '//'
Anchored(p) == p # <<>> /\ p[1] \in { <<"/">>, <<"/", "/">> }

\* PurePath.name: the last part, '' for a path that is only a root or empty
PathName(p) == IF p = <<>> \/ (Len(p) = 1 /\ Anchored(p)) THEN <<>> ELSE p[Len(p)]

PathSuffix(p) == Suffix(PathName(p))

PathStem(p) == Stem(PathName(p))

\* PurePath.parent: a root and the empty path are their own parents
Parent(p) == IF p = <<>> \/ (Len(p) = 1 /\ Anchored(p)) THEN p ELSE SubSeq(p, 1, Len(p) - 1)

\* the position of the first '/' of s at or after i, Len(s) + 1 when there is none
NextSlash(s, i) ==
    IF \E j \in i..Len(s) : s[j] = "/"
    THEN CHOOSE j \in i..Len(s) : s[j] = "/" /\ \A k \in i..(j - 1) : s[k] # "/"
    ELSE Len(s) + 1

\* the parts of string s from position i on: the components between the
\* slashes, but for the empty ones and '.'
RECURSIVE Parts(_, _)
Parts(s, i) ==
    IF i > Len(s) THEN <<>>
    ELSE IF SubSeq(s, i, NextSlash(s, i) - 1) \in { <<>>, <<".">> }
    THEN Parts(s, NextSlash(s, i) + 1)
    ELSE << SubSeq(s, i, NextSlash(s, i) - 1) >> \o Parts(s, NextSlash(s, i) + 1)

\* the root string s starts with: '//' for exactly two slashes, '/' for any
\* other number, none for a relative string
Anchor(s) ==
    IF ~StartsWith(s, 1, <<"/">>) THEN <<>>
    ELSE IF StartsWith(s, 1, <<"/", "/">>) /\ ~StartsWith(s, 1, <<"/", "/", "/">>)
    THEN << <<"/", "/">> >>
    ELSE << <<"/">> >>

\* p / s for a string s: the parts of s after those of p, or in their place
\* when s is absolute
Child(p, s) == (IF Anchor(s) # <<>> THEN Anchor(s) ELSE p) \o Parts(s, 1)

IsPrefix(p, q) == Len(p) <= Len(q) /\ SubSeq(q, 1, Len(p)) = p

\* Path.relative_to(base), for a path below base
RelativeTo(p, base) == SubSeq(p, Len(base) + 1, Len(p))

\* the names p[1..n] joined by '/'
RECURSIVE Joined(_, _)
Joined(p, n) ==
    IF n = 0 THEN <<>>
    ELSE IF n = 1 THEN p[1]
    ELSE Joined(p, n - 1) \o <<"/">> \o p[n]

\* str(path)
PathStr(p) ==
    IF p = <<>> THEN <<".">>
    ELSE IF Anchored(p) THEN p[1] \o Joined(Tail(p), Len(p) - 1)
    ELSE Joined(p, Len(p))

(* ---------------------------- filesystem ------------------------------- *)

\* the working directory of the process: the directory site under the root
WorkingDirectory == << <<"s", "i", "t", "e">> >>

\* the content directory, from the root
ContentDirectory == WorkingDirectory \o DirPath

\* whether name is an entry of listing d
InListing(name, d) == \E k \in 1..Len(d) : d[k] = name

\* os.listdir of the file n (the names from the root to it), d being the
\* listing of the content directory
Entries(n, d) ==
    IF n = ContentDirectory THEN d
    ELSE IF IsPrefix(n, ContentDirectory) THEN << ContentDirectory[Len(n) + 1] >>
    ELSE <<>>

\* NAME_MAX and PATH_MAX: the most bytes of a file name, and one more than
\* the most bytes of a path
NameMax == 255

PathMax == 4096

\* the bytes a character takes in the encoding of the filesystem (UTF-8,
\* the surrogates U+DC80 to U+DCFF standing for one byte each)
Utf8Len(c) ==
    IF c \in AsciiChars \/ (\E n \in (0..127) \cup (56448..56575) : c = CharOfCode(n)) THEN 1
    ELSE IF \E n \in 128..2047 : c = CharOfCode(n) THEN 2
    ELSE IF \E n \in 2048..65535 : c = CharOfCode(n) THEN 3
    ELSE 4

\* the bytes of s[i..j]
RECURSIVE Bytes(_, _, _)
Bytes(s, i, j) ==
    IF i > j THEN 0
    ELSE IF i = j THEN Utf8Len(s[i])
    ELSE Bytes(s, i, (i + j) \div 2) + Bytes(s, (i + j) \div 2 + 1, j)

\* whether s takes max bytes or more (a character takes four at most)
Fills(s, max) == 4 * Len(s) >= max /\ Bytes(s, 1, Len(s)) >= max

\* The walk of the parts p[k..] from the directory n: the file reached, or
\* the error of the first part that cannot be followed.
RECURSIVE Walk(_, _, _, _)
Walk(n, p, k, d) ==
    IF k > Len(p) THEN [error |-> "none", node |-> n]
    ELSE IF ~IsPrefix(n, ContentDirectory) THEN [error |-> "ENOTDIR", node |-> n]
    ELSE IF p[k] = <<".", ".">> THEN Walk(Parent(n), p, k + 1, d)
    ELSE IF Fills(p[k], NameMax + 1) THEN [error |-> "ENAMETOOLONG", node |-> n]
    ELSE IF InListing(p[k], Entries(n, d)) THEN Walk(Append(n, p[k]), p, k + 1, d)
    ELSE [error |-> "ENOENT", node |-> n]

\* What keeps the path written s from being walked at all: it is encoded
\* first (a surrogate outside U+DC80..U+DCFF cannot be), then must hold no
\* NUL, then must fit PATH_MAX.
Unwalkable(s) ==
    IF \E k \in 1..Len(s) : s[k] \in Surrogates /\ Utf8Len(s[k]) # 1 THEN "UnicodeEncodeError"
    ELSE IF InListing(CharOfCode(0), s) THEN "ValueError"
    ELSE IF Fills(s, PathMax) THEN "ENAMETOOLONG"
    ELSE "none"

\* os.stat(path) and the start of os.listdir(path): the file the path leads
\* to from the root or from the working directory, or the error
Stat(p, d) ==
    IF Unwalkable(PathStr(p)) # "none" THEN [error |-> Unwalkable(PathStr(p)), node |-> <<>>]
    ELSE IF Anchored(p) THEN Walk(<<>>, p, 2, d)
    ELSE Walk(WorkingDirectory, p, 1, d)

\* Path.exists(), unless it raises
Exists(p, d) == Stat(p, d).error = "none"

\* Path.is_dir(), unless it raises
IsDir(p, d) == Stat(p, d).error = "none" /\ IsPrefix(Stat(p, d).node, ContentDirectory)

\* whether Path.exists() and Path.is_dir() raise OSError: they answer False
\* to a missing file, to a file in the place of a directory and to a path
\* that cannot be encoded, and pass every other error on
StatRaises(p, d) == Stat(p, d).error = "ENAMETOOLONG"

\* Path.iterdir() of a directory, in listing order
IterDir(p, d) ==
    [k \in 1..Len(Entries(Stat(p, d).node, d)) |-> Append(p, Entries(Stat(p, d).node, d)[k])]

\* what Path.iterdir() raises on p, "none" when it lists p
IterDirError(p, d) ==
    IF Stat(p, d).error = "none"
    THEN IF IsPrefix(Stat(p, d).node, ContentDirectory) THEN "none" ELSE "NotADirectoryError"
    ELSE IF Stat(p, d).error = "ENOENT" THEN "FileNotFoundError"
    ELSE IF Stat(p, d).error = "ENOTDIR" THEN "NotADirectoryError"
    ELSE IF Stat(p, d).error = "ENAMETOOLONG" THEN "OSError"
    ELSE Stat(p, d).error

\* Path.glob(pattern) for a pattern without wildcards: the one entry of
\* that name, when p is a directory and the entry exists
GlobLiteral(p, pattern, d) ==
    IF IsDir(p, d) /\ Exists(Append(p, pattern), d) THEN << Append(p, pattern) >> ELSE <<>>

\* whether that glob raises OSError
GlobRaises(p, pattern, d) ==
    StatRaises(p, d) \/ (IsDir(p, d) /\ StatRaises(Append(p, pattern), d))

\* every listing of at most n distinct names
Listings(n) ==
    UNION { { s \in [1..k -> Names] : \A a, b \in 1..k : a # b => s[a] # s[b] } : k \in 0..n }

\* listing d with name put at position k
InsertAt(d, k, name) == SubSeq(d, 1, k - 1) \o <<name>> \o SubSeq(d, k, Len(d))

\* listing d without its k-th entry
RemoveAt(d, k) == SubSeq(d, 1, k - 1) \o SubSeq(d, k + 1, Len(d))

(* ------------------------- util (external) ----------------------------- *)

\* one character of a slug: lower case, and '-' for what is no letter or digit
SluggifyChar(c) ==
    IF \E k \in 1..26 : Ascii[k + 33] = c
    THEN AsciiLower[CHOOSE k \in 1..26 : Ascii[k + 33] = c]
    ELSE IF c \in AsciiLetters \/ c \in AsciiDigits THEN c
    ELSE "-"

\* util.sluggify: a deterministic, idempotent normalisation of a text
sluggify(text) == [k \in 1..Len(text) |-> SluggifyChar(text[k])]

\* util.is_wide: a pure function of the file
is_wide(p) == PathName(p) \in {CJpg}


(* ------------------------- headline image ------------------------------ *)

make_headline_image(src, alt, wide) ==
    Element("img",
            << <<"src", src>>, <<"alt", alt>>,
               <<"class", IF wide THEN <<"w", "i", "d", "e">> ELSE <<"t", "a", "l", "l">> >> >>,
            None, <<>>)

(* ------------------------- document (external) ------------------------- *)

\* Document(title, body, primary_image=...)
Document(title, body, primary_image) ==
    [source |-> "constructed", title |-> title, body |-> body, primary_image |-> primary_image]

\* Document.load_file(path): the document read from the file, which has to exist
load_file(p, d) ==
    IF Exists(p, d)
    THEN [ok |-> TRUE, error |-> "none", doc |-> [source |-> "load_file", file |-> p]]
    ELSE [ok |-> FALSE, error |-> "FileNotFoundError", doc |-> <<>>]

(* ------------------------------ Resource ------------------------------- *)

Unset == <<>>

\* the values of the _description_path field
NoPath == [kind |-> "None"]

APath(p) == [kind |-> "Path", path |-> p]

\* The default of the description_path InitVar: dataclasses reads it from
\* the class attribute of that name, which by the end of the class body is
\* the functools.cached_property defined below the field.
DescriptionPathDefault == [kind |-> "cached_property", attrname |-> "description_path"]

\* the class attribute DIRECTORY of the classes Resource, Piece and Project:
\* Resource only annotates it, Piece and Project assign it
DIRECTORY(cls) ==
    IF cls = "Piece" THEN Some(<< <<"p", "i", "e", "c", "e", "s">> >>)
    ELSE IF cls = "Project" THEN Some(<< <<"p", "r", "o", "j", "e", "c", "t", "s">> >>)
    ELSE Unset

\* a __post_init__ that normalises the slug it was given
PostInit_SluggifiesGiven(cls, path, slug, dpField, description_path) ==
    [cls |-> cls,
     path |-> path,
     slug |-> IF slug = None \/ slug = Some(<<>>) THEN sluggify(PathStem(path)) ELSE sluggify(slug[1]),
     _description_path |-> IF description_path # NoPath THEN description_path ELSE dpField,
     assets |-> Unset,
     description_path |-> Unset,
     description |-> Unset]

\* __post_init__ on the fields __init__ stored
PostInit(cls, path, slug, dpField, description_path) ==
    [cls |-> cls,
     path |-> path,
     slug |-> IF slug = None \/ slug = Some(<<>>) THEN sluggify(PathStem(path)) ELSE slug[1],
     _description_path |-> IF description_path # NoPath THEN description_path ELSE dpField,
     assets |-> Unset,
     description_path |-> Unset,
     description |-> Unset]

\* cls(path, slug, _description_path, description_path)
Resource(cls, path, slug, dpField, description_path) ==
    PostInit(cls, path, slug, dpField, description_path)

\* the classmethod Resource.from_path
from_path(cls, p) ==
    IF PathSuffix(p) \in {DotMd, HtmlSuffix}
    THEN Resource(cls, Parent(p), None, NoPath, APath(p))
    ELSE Resource(cls, p, None, NoPath, DescriptionPathDefault)

\* an assets filter that lets entries without an extension through
IsAsset_KeepsNoExtension(p) == PathSuffix(p) \notin {DotMd, HtmlSuffix}

IsAsset(p) == PathSuffix(p) \notin {DotMd, HtmlSuffix, <<>>}

\* the body of Resource.assets
assets(r, d) ==
    IF IterDirError(r.path, d) # "none"
    THEN [ok |-> FALSE, error |-> IterDirError(r.path, d), value |-> <<>>]
    ELSE [ok |-> TRUE, error |-> "none", value |-> SelectSeq(IterDir(r.path, d), IsAsset)]

\* description_path returning p

\* a description_path that looks for {slug}.md before index.md
description_path_SlugFirst(r, d) ==
    IF StatRaises(Child(r.path, r.slug \o DotMd), d) THEN [error |-> "OSError", value |-> None]
    ELSE IF Exists(Child(r.path, r.slug \o DotMd), d) THEN [error |-> "none", value |-> Some(Child(r.path, r.slug \o DotMd))]
    ELSE IF StatRaises(Child(r.path, IndexMd), d) THEN [error |-> "OSError", value |-> None]
    ELSE IF Exists(Child(r.path, IndexMd), d) THEN [error |-> "none", value |-> Some(Child(r.path, IndexMd))]
    ELSE IF GlobRaises(r.path, DotMd, d) THEN [error |-> "OSError", value |-> None]
    ELSE IF GlobLiteral(r.path, DotMd, d) # <<>> THEN [error |-> "none", value |-> Some(GlobLiteral(r.path, DotMd, d)[1])]
    ELSE [error |-> "none", value |-> None]

\* a description_path that returns the path given at construction when there is one
description_path_HonoursGiven(r, d) ==
    IF r._description_path.kind = "Path" THEN [error |-> "none", value |-> Some(r._description_path.path)]
    ELSE IF StatRaises(Child(r.path, IndexMd), d) THEN [error |-> "OSError", value |-> None]
    ELSE IF Exists(Child(r.path, IndexMd), d) THEN [error |-> "none", value |-> Some(Child(r.path, IndexMd))]
    ELSE IF StatRaises(Child(r.path, r.slug \o DotMd), d) THEN [error |-> "OSError", value |-> None]
    ELSE IF Exists(Child(r.path, r.slug \o DotMd), d) THEN [error |-> "none", value |-> Some(Child(r.path, r.slug \o DotMd))]
    ELSE IF GlobRaises(r.path, DotMd, d) THEN [error |-> "OSError", value |-> None]
    ELSE IF GlobLiteral(r.path, DotMd, d) # <<>> THEN [error |-> "none", value |-> Some(GlobLiteral(r.path, DotMd, d)[1])]
    ELSE [error |-> "none", value |-> None]

\* the body of Resource.description_path: each exists() answers or raises
description_path(r, d) ==
    IF StatRaises(Child(r.path, IndexMd), d) THEN [error |-> "OSError", value |-> None]
    ELSE IF Exists(Child(r.path, IndexMd), d) THEN [error |-> "none", value |-> Some(Child(r.path, IndexMd))]
    ELSE IF StatRaises(Child(r.path, r.slug \o DotMd), d) THEN [error |-> "OSError", value |-> None]
    ELSE IF Exists(Child(r.path, r.slug \o DotMd), d) THEN [error |-> "none", value |-> Some(Child(r.path, r.slug \o DotMd))]
    ELSE IF GlobRaises(r.path, DotMd, d) THEN [error |-> "OSError", value |-> None]
    ELSE IF GlobLiteral(r.path, DotMd, d) # <<>> THEN [error |-> "none", value |-> Some(GlobLiteral(r.path, DotMd, d)[1])]
    ELSE [error |-> "none", value |-> None]

\* a headline choice that takes the last asset whose stem gives the slug
HeadlineAsset_LastMatching(r, as) ==
    IF \E k \in 1..Len(as) : sluggify(PathStem(as[k])) = r.slug
    THEN as[CHOOSE k \in 1..Len(as) :
                /\ sluggify(PathStem(as[k])) = r.slug
                /\ \A j \in (k + 1)..Len(as) : sluggify(PathStem(as[j])) # r.slug]
    ELSE as[1]

\* next((p for p in assets if sluggify(p.stem) == slug), assets[0])
HeadlineAsset(r, as) ==
    IF \E k \in 1..Len(as) : sluggify(PathStem(as[k])) = r.slug
    THEN as[CHOOSE k \in 1..Len(as) :
                /\ sluggify(PathStem(as[k])) = r.slug
                /\ \A j \in 1..(k - 1) : sluggify(PathStem(as[j])) # r.slug]
    ELSE as[1]

\* lines 84-86 and the Document of line 88: the headline container goes in
\* front of the body's children, and the image is the primary image
WithHeadline(r, body, headline_img) ==
    Document(r.slug,
             [body EXCEPT !.children =
                 << Element("div", << <<"class", <<"h", "e", "a", "d", "l", "i", "n", "e">> >> >>,
                            None, <<headline_img>>) >> \o @],
             Some(headline_img))

\* line 83: the headline image of the selected asset
HeadlineImageOf(r, path) ==
    make_headline_image(PathStr(RelativeTo(path, r.path)), PathStem(path), is_wide(path))

\* _generate_description once the body is parsed and assets is at hand
BuildDescription(r, body, as) ==
    IF as = <<>> THEN Document(r.slug, body, None)
    ELSE WithHeadline(r, body, HeadlineImageOf(r, HeadlineAsset(r, as)))

(* --------------------- cached properties of Resource ------------------- *)

\* cached_property stores what the body of assets returned, a: nothing is
\* stored when the body raised
StoreAssets(r, a) ==
    IF a.ok THEN [r |-> [r EXCEPT !.assets = Some(a.value)], error |-> "none", value |-> a.value]
    ELSE [r |-> r, error |-> a.error, value |-> <<>>]

\* an assets property that lists the directory on every access
CachedAssets_Rescans(r, d) == StoreAssets(r, assets(r, d))

\* functools.cached_property on assets: the stored value when there is one,
\* else the body's value, stored
CachedAssets(r, d) ==
    IF r.assets # Unset THEN [r |-> r, error |-> "none", value |-> r.assets[1]]
    ELSE StoreAssets(r, assets(r, d))

\* cached_property stores what the body of description_path returned, p
StoreDescriptionPath(r, p) ==
    IF p.error = "none"
    THEN [r |-> [r EXCEPT !.description_path = Some(p.value)], error |-> "none", value |-> p.value]
    ELSE [r |-> r, error |-> p.error, value |-> None]

\* functools.cached_property on description_path
CachedDescriptionPath(r, d) ==
    IF r.description_path # Unset THEN [r |-> r, error |-> "none", value |-> r.description_path[1]]
    ELSE StoreDescriptionPath(r, description_path(r, d))

\* lines 79-92 of _generate_description, a being the outcome of self.assets
GenerateWithAssets(body, a) ==
    IF a.error # "none" THEN [r |-> a.r, error |-> a.error, value |-> <<>>]
    ELSE [r |-> a.r, error |-> "none", value |-> BuildDescription(a.r, body, a.value)]

\* line 77 of _generate_description, parsed being the outcome of ET.fromstring
GenerateParsed(r, d, parsed) ==
    IF ~parsed.ok THEN [r |-> r, error |-> parsed.error, value |-> <<>>]
    ELSE GenerateWithAssets(parsed.root, CachedAssets(r, d))

\* Resource._generate_description
generate_description(r, d) == GenerateParsed(r, d, FromString(r.slug))

\* lines 71-72: the debug entry, then the synthesis, g being its outcome
Synthesized(g) == [r |-> g.r, logged |-> 1, error |-> g.error, value |-> g.value]

\* Lines 70-73, p being the outcome of self.description_path. On a class
\* without DIRECTORY, reading self.DIRECTORY for the debug entry raises
\* before anything is logged or synthesized.
DescriptionAt(p, d) ==
    IF p.error # "none" THEN [r |-> p.r, logged |-> 0, error |-> p.error, value |-> <<>>]
    ELSE IF p.value # None
    THEN [r |-> p.r, logged |-> 0,
          error |-> load_file(p.value[1], d).error, value |-> load_file(p.value[1], d).doc]
    ELSE IF DIRECTORY(p.r.cls) = Unset
    THEN [r |-> p.r, logged |-> 0, error |-> "AttributeError", value |-> <<>>]
    ELSE Synthesized(generate_description(p.r, d))

\* the body of Resource.description; logged counts the debug entries it emits
description(r, d) == DescriptionAt(CachedDescriptionPath(r, d), d)

\* cached_property stores what the body of description returned, x
StoreDescription(x) ==
    IF x.error = "none" THEN [x EXCEPT !.r = [@ EXCEPT !.description = Some(x.value)]]
    ELSE x

\* functools.cached_property on description
CachedDescription(r, d) ==
    IF r.description # Unset
    THEN [r |-> r, logged |-> 0, error |-> "none", value |-> r.description[1]]
    ELSE StoreDescription(description(r, d))

(* ------------------------------ arguments ------------------------------ *)

Slots == {1, 2}

\* the content directory spelled p/A/../A
DottedPath == DirPath \o << <<".", ".">>, <<"A">> >>

\* a slug whose {slug}.md is a name of more than NAME_MAX bytes
LongSlug == [k \in 1..(NameMax - 2) |-> "x"]

\* The calls made on one resource over a directory that stays as it is.
\* new: the constructor calls, of the base class and of one that assigns
\* DIRECTORY (Project differs from Piece in its value alone), on either
\* spelling of the directory, the slug omitted or one of '', 'a', '<',
\* '&amp;', './a' and the long one, the description path omitted or None.
\* from_path: the calls of from_path, on a directory or a file in it.
Calls ==
    [new |-> [cls : {"Resource", "Piece"}, path : {DirPath, DottedPath},
              slug : {None, Some(<<>>), Some(<<"a">>), Some(<<"<">>),
                      Some(<<"&", "a", "m", "p", ";">>), Some(<<".", "/", "a">>),
                      Some(LongSlug)},
              field : {NoPath}, initvar : {DescriptionPathDefault, NoPath}],
     from_path |-> [cls : {"Resource", "Piece"},
                    path : {DirPath, DottedPath, Append(DirPath, XHtml),
                            Append(DirPath, IndexMd), Append(DirPath, DotMd)}]]

\* The calls made on a resource whose directory changes under it.
ChangingCalls ==
    [new |-> [cls : {"Piece"}, path : {DirPath, DottedPath},
              slug : {Some(<<"a">>), Some(<<".", "/", "a">>)},
              field : {NoPath}, initvar : {DescriptionPathDefault}],
     from_path |-> [cls : {"Piece"}, path : {Append(DirPath, DotMd)}]]

\* The calls made on two resources that are compared: with and without a
\* description path, given as the field _description_path (omitted, or a
\* path) or as the argument description_path (omitted, None, or a path).
PairCalls ==
    [new |-> [cls : {"Piece"}, path : {DirPath},
              slug : {Some(<<"a">>), Some(<<".", "/", "a">>)},
              field : {NoPath, APath(Append(DirPath, XHtml))},
              initvar : {DescriptionPathDefault, NoPath, APath(Append(DirPath, XHtml))}],
     from_path |-> [cls : {"Piece"},
                    path : {DirPath, Append(DirPath, XHtml), Append(DirPath, IndexMd)}]]

(* ------------------------------- actions ------------------------------- *)

Built(i) == res[i] # None

\* no resource yet, over a directory listed as one of ds
Start(ds) ==
    /\ dir \in ds
    /\ res = [i \in Slots |-> None]
    /\ call = [i \in Slots |-> [op |-> "none", path |-> <<>>, slug |-> None]]
    /\ ret = [i \in Slots |-> [assets |-> Unset, description_path |-> Unset, description |-> Unset]]
    /\ logs = [i \in Slots |-> 0]
    /\ raised = [i \in Slots |-> "none"]

\* cls(path, slug, _description_path, description_path)
Construct(i, calls) ==
    /\ res[i] = None
    /\ \E c \in calls :
           /\ res' = [res EXCEPT ![i] = Some(Resource(c.cls, c.path, c.slug, c.field, c.initvar))]
           /\ call' = [call EXCEPT ![i] = [op |-> "Resource", path |-> c.path, slug |-> c.slug]]
    /\ UNCHANGED <<dir, ret, logs, raised>>

\* cls.from_path(p)
ConstructFromPath(i, calls) ==
    /\ res[i] = None
    /\ \E c \in calls :
           /\ res' = [res EXCEPT ![i] = Some(from_path(c.cls, c.path))]
           /\ call' = [call EXCEPT ![i] = [op |-> "from_path", path |-> c.path, slug |-> None]]
    /\ UNCHANGED <<dir, ret, logs, raised>>

\* the instance and the caller after an access of r.assets with outcome x
ReturnAssets(i, x) ==
    /\ res' = [res EXCEPT ![i] = Some(x.r)]
    /\ raised' = [raised EXCEPT ![i] = x.error]
    /\ ret' = IF x.error = "none" THEN [ret EXCEPT ![i].assets = Some(x.value)] ELSE ret

\* r.assets
AccessAssets(i) ==
    /\ res[i] # None
    /\ ReturnAssets(i, CachedAssets(res[i][1], dir))
    /\ UNCHANGED <<dir, call, logs>>

ReturnDescriptionPath(i, x) ==
    /\ res' = [res EXCEPT ![i] = Some(x.r)]
    /\ raised' = [raised EXCEPT ![i] = x.error]
    /\ ret' = IF x.error = "none" THEN [ret EXCEPT ![i].description_path = Some(x.value)] ELSE ret

\* r.description_path
AccessDescriptionPath(i) ==
    /\ res[i] # None
    /\ ReturnDescriptionPath(i, CachedDescriptionPath(res[i][1], dir))
    /\ UNCHANGED <<dir, call, logs>>

ReturnDescription(i, x) ==
    /\ logs[i] + x.logged <= MaxLog
    /\ logs' = [logs EXCEPT ![i] = @ + x.logged]
    /\ res' = [res EXCEPT ![i] = Some(x.r)]
    /\ raised' = [raised EXCEPT ![i] = x.error]
    /\ ret' = IF x.error = "none" THEN [ret EXCEPT ![i].description = Some(x.value)] ELSE ret

\* r.description
AccessDescription(i) ==
    /\ res[i] # None
    /\ ReturnDescription(i, CachedDescription(res[i][1], dir))
    /\ UNCHANGED <<dir, call>>

\* an entry appears in the content directory, anywhere in its listing
FsAdd ==
    /\ Len(dir) < MaxEntries
    /\ \E name \in Names, k \in 1..(Len(dir) + 1) :
           /\ ~InListing(name, dir)
           /\ dir' = InsertAt(dir, k, name)
    /\ UNCHANGED <<res, call, ret, logs, raised>>

\* an entry of the content directory is removed
FsRemove ==
    /\ \E k \in 1..Len(dir) : dir' = RemoveAt(dir, k)
    /\ UNCHANGED <<res, call, ret, logs, raised>>

\* an entry of the content directory is renamed; the listing shows the new
\* name at whatever position the filesystem gives it
FsRename ==
    /\ \E k \in 1..Len(dir), j \in 1..Len(dir), name \in Names :
           /\ ~InListing(name, dir)
           /\ dir' = InsertAt(RemoveAt(dir, k), j, name)
    /\ UNCHANGED <<res, call, ret, logs, raised>>

\* one resource over a directory that stays as it is
Init == Start(Listings(MaxListed))

Next ==
    \/ Construct(1, Calls.new)
    \/ ConstructFromPath(1, Calls.from_path)
    \/ AccessAssets(1)
    \/ AccessDescriptionPath(1)
    \/ AccessDescription(1)

Spec == Init /\ [][Next]_vars

\* one resource over a directory that changes under it
InitChanging == Start({<<>>})

NextChanging ==
    \/ Construct(1, ChangingCalls.new)
    \/ ConstructFromPath(1, ChangingCalls.from_path)
    \/ AccessAssets(1)
    \/ AccessDescriptionPath(1)
    \/ AccessDescription(1)
    \/ FsAdd
    \/ FsRemove
    \/ FsRename

SpecChanging == InitChanging /\ [][NextChanging]_vars

\* two resources over one directory listing that stays as it is
InitPair == Start(Listings(MaxPairEntries))

\* the resource being built in slot 2 is of the class of the one in slot 1
\* and has its path and its slug
Twin ==
    /\ Built(1)
    /\ res'[2][1].cls = res[1][1].cls
    /\ res'[2][1].path = res[1][1].path
    /\ res'[2][1].slug = res[1][1].slug

\* a resource is built, then a second one like it, in whatever way, and
\* the properties of both are read in any order
NextPair ==
    \/ Construct(1, PairCalls.new)
    \/ ConstructFromPath(1, PairCalls.from_path)
    \/ Construct(2, PairCalls.new) /\ Twin
    \/ ConstructFromPath(2, PairCalls.from_path) /\ Twin
    \/ \E i \in Slots :
           \/ AccessAssets(i)
           \/ AccessDescriptionPath(i)
           \/ AccessDescription(i)

SpecPair == InitPair /\ [][NextPair]_vars

(* ------------------------------- claims -------------------------------- *)

\* the description file the resolution order names for r in the directory
\* as it is, path / name being pathlib's join
ResolutionOrder(r) ==
    IF Exists(Child(r.path, <<"i", "n", "d", "e", "x", ".", "m", "d">>), dir)
    THEN Some(Child(r.path, <<"i", "n", "d", "e", "x", ".", "m", "d">>))
    ELSE IF Exists(Child(r.path, r.slug \o <<".", "m", "d">>), dir)
    THEN Some(Child(r.path, r.slug \o <<".", "m", "d">>))
    ELSE IF Exists(Child(r.path, <<".", "m", "d">>), dir)
    THEN Some(Child(r.path, <<".", "m", "d">>))
    ELSE None

\* C1: the first computation of description_path returns path/index.md if
\* that entry exists, else path/{slug}.md if that entry exists, else the
\* entry named '.md' if there is one, else None: the first match wins.
C1_ResolutionOrder ==
    [][\A i \in Slots :
          (/\ Built(i)
           /\ res[i][1].description_path = Unset
           /\ res'[i][1].description_path # Unset)
          => res'[i][1].description_path[1] = ResolutionOrder(res[i][1])]_vars

\* C1 witness: index.md was returned in a directory that also holds
\* {slug}.md and '.md', for the slug './a', whose {slug}.md is the entry a.md
C1_Witness ==
    /\ Built(1)
    /\ res[1][1].path = DirPath
    /\ res[1][1].slug = <<".", "/", "a">>
    /\ InListing(IndexMd, dir) /\ InListing(SlugMd, dir) /\ InListing(DotMd, dir)
    /\ Exists(Child(DirPath, res[1][1].slug \o DotMd), dir)
    /\ res[1][1].description_path = Some(Some(Append(DirPath, IndexMd)))
    /\ ret[1].description_path = Some(Some(Append(DirPath, IndexMd)))

\* C2: two resources with the same path and slug over the same directory
\* contents have the same description_path and the same load-or-synthesize
\* outcome of description, whatever description path either was given at
\* construction.
C2_GivenPathIgnored ==
    \A i, j \in Slots :
        (/\ Built(i) /\ Built(j)
         /\ res[i][1].path = res[j][1].path
         /\ res[i][1].slug = res[j][1].slug)
        => /\ (res[i][1].description_path # Unset /\ res[j][1].description_path # Unset)
              => res[i][1].description_path = res[j][1].description_path
           /\ (ret[i].description_path # Unset /\ ret[j].description_path # Unset)
              => ret[i].description_path = ret[j].description_path
           /\ (res[i][1].description # Unset /\ res[j][1].description # Unset)
              => res[i][1].description[1].source = res[j][1].description[1].source

\* C2 witness: one resource given x.html at construction, one given nothing,
\* both with the slug './a', both loaded their description from a.md
C2_Witness ==
    /\ Built(1) /\ Built(2)
    /\ res[1][1]._description_path = APath(Append(DirPath, XHtml))
    /\ res[2][1]._description_path.kind # "Path"
    /\ res[1][1].path = res[2][1].path
    /\ res[1][1].slug = <<".", "/", "a">>
    /\ res[2][1].slug = <<".", "/", "a">>
    /\ ret[1].description_path = Some(Some(Append(DirPath, SlugMd)))
    /\ ret[2].description_path = Some(Some(Append(DirPath, SlugMd)))
    /\ res[1][1].description # Unset /\ res[1][1].description[1].source = "load_file"
    /\ res[2][1].description # Unset /\ res[2][1].description[1].source = "load_file"

\* C3: once assets (description_path, description) has been computed on an
\* instance, the stored value never changes and every later access returns
\* it, whatever is added to, removed from or renamed in the directory.
C3_ComputedOnce ==
    [][\A i \in Slots :
          Built(i) =>
            /\ res[i][1].assets # Unset =>
                 /\ res'[i][1].assets = res[i][1].assets
                 /\ ret'[i].assets # Unset => ret'[i].assets = res[i][1].assets
            /\ res[i][1].description_path # Unset =>
                 /\ res'[i][1].description_path = res[i][1].description_path
                 /\ ret'[i].description_path # Unset
                    => ret'[i].description_path = res[i][1].description_path
            /\ res[i][1].description # Unset =>
                 /\ res'[i][1].description = res[i][1].description
                 /\ ret'[i].description # Unset => ret'[i].description = res[i][1].description
            /\ ret[i].assets # Unset => ret'[i].assets = ret[i].assets
            /\ ret[i].description_path # Unset => ret'[i].description_path = ret[i].description_path
            /\ ret[i].description # Unset => ret'[i].description = ret[i].description]_vars

\* C3 witness: assets, description_path and description were returned, and
\* the directory as it is now would give other values for the first two
C3_Witness ==
    /\ Built(1)
    /\ IsDir(res[1][1].path, dir)
    /\ ret[1].assets # Unset
    /\ ret[1].assets = res[1][1].assets
    /\ ret[1].assets[1] # assets(res[1][1], dir).value
    /\ ret[1].description_path # Unset
    /\ ret[1].description_path = res[1][1].description_path
    /\ ret[1].description_path[1] # description_path(res[1][1], dir).value
    /\ ret[1].description # Unset

\* C4: over any sequence of accesses to description on one instance, the
\* debug entry is emitted exactly once when the description is synthesized
\* (description_path absent) and never when it is loaded; the description
\* is loaded if and only if description_path is present.
C4_LoggedExactlyOnce ==
    \A i \in Slots :
        (Built(i) /\ IsDir(res[i][1].path, dir)) =>
            /\ res[i][1].description_path = Some(None) => logs[i] <= 1
            /\ res[i][1].description_path \notin {Unset, Some(None)} => logs[i] = 0
            /\ res[i][1].description # Unset =>
                 IF res[i][1].description[1].source = "load_file"
                 THEN logs[i] = 0 /\ res[i][1].description_path \notin {Unset, Some(None)}
                 ELSE logs[i] = 1 /\ res[i][1].description_path = Some(None)

\* C5: for a resource whose description_path is absent, with any slug and
\* any asset list, synthesis returns a Document and never raises (the
\* resources are those of a class with a DIRECTORY, the ones description
\* calls _generate_description for, over a path that is a directory).
C5_SynthesisNeverRaises ==
    \A i \in Slots :
        (/\ Built(i)
         /\ DIRECTORY(res[i][1].cls) # Unset
         /\ IsDir(res[i][1].path, dir)
         /\ res[i][1].description_path = Some(None))
        => raised[i] = "none"

\* the positions of the assets whose normalised stem is the slug
Matching(r, as) == {k \in 1..Len(as) : sluggify(PathStem(as[k])) = r.slug}

\* C6: with assets non-empty, the headline of a synthesized description is
\* the first asset whose sluggify(stem) equals the slug, and the first
\* asset in listing order only when no asset matches.
C6_HeadlineChoice ==
    \A i \in Slots :
        (/\ Built(i)
         /\ res[i][1].description # Unset
         /\ res[i][1].description[1].source = "constructed"
         /\ res[i][1].assets # Unset
         /\ res[i][1].assets[1] # <<>>)
        => LET r == res[i][1]
               as == r.assets[1]
               src == Attr(r.description[1].primary_image[1], "src")
           IN  IF Matching(r, as) # {}
               THEN \E k \in Matching(r, as) :
                        /\ \A j \in Matching(r, as) : k <= j
                        /\ src = Some(PathName(as[k]))
               ELSE src = Some(PathName(as[1]))

\* C6 witness: of the assets c.jpg, A.png and a.jpg in that order, the last
\* two both matching the slug 'a', A.png was chosen
C6_Witness ==
    /\ Built(1)
    /\ res[1][1].slug = <<"a">>
    /\ res[1][1].assets = Some(<<Append(DirPath, CJpg), Append(DirPath, APng), Append(DirPath, AJpg)>>)
    /\ Cardinality(Matching(res[1][1], res[1][1].assets[1])) = 2
    /\ res[1][1].description # Unset
    /\ res[1][1].description[1].source = "constructed"
    /\ Attr(res[1][1].description[1].primary_image[1], "src") = Some(APng)

\* the extensions assets leaves out
Excluded == { <<".", "m", "d">>, <<".", "h", "t", "m", "l">>, <<>> }

\* as is the children of path with an extension not excluded, all of them,
\* once each and in listing order
FilteredListing(as, path) ==
    LET kids == IterDir(path, dir)
    IN  /\ \A k \in 1..Len(as) :
               \E m \in 1..Len(kids) : as[k] = kids[m] /\ PathSuffix(kids[m]) \notin Excluded
        /\ \A m \in 1..Len(kids) :
               PathSuffix(kids[m]) \notin Excluded => \E k \in 1..Len(as) : as[k] = kids[m]
        /\ \A k1, k2 \in 1..Len(as) :
               k1 < k2 => \E m1, m2 \in 1..Len(kids) :
                              /\ m1 < m2
                              /\ as[k1] = kids[m1]
                              /\ as[k2] = kids[m2]

\* C7: assets is exactly the direct children of path, in listing order,
\* whose extension is none of '.md', '.html' or empty; an empty directory
\* gives the empty sequence without error.
C7_AssetsExact ==
    [][\A i \in Slots :
          (/\ Built(i)
           /\ res[i][1].assets = Unset
           /\ res'[i][1].assets # Unset)
          => /\ FilteredListing(res'[i][1].assets[1], res[i][1].path)
             /\ raised'[i] = "none"]_vars

\* C7 witness: for the directory spelled p/A/../A, of the entries '.md'
\* (which has no extension), c.jpg and x.html, assets returned c.jpg alone
C7_Witness ==
    /\ Built(1)
    /\ res[1][1].path = DottedPath
    /\ dir = <<DotMd, CJpg, XHtml>>
    /\ ret[1].assets = Some(<<Append(DottedPath, CJpg)>>)

\* C8 as stated: slug is sluggify(path.stem) when no slug was supplied, and
\* exactly the supplied value for every supplied string.
C8_SlugAsSupplied ==
    \A i \in Slots :
        (Built(i) /\ call[i].op = "Resource") =>
            IF call[i].slug = None
            THEN res[i][1].slug = sluggify(PathStem(call[i].path))
            ELSE res[i][1].slug = call[i].slug[1]

\* C8 amended: slug is sluggify(path.stem) when no slug or the empty string
\* was supplied, and exactly the supplied value for every other string.
C8_SlugAsSuppliedUnlessEmpty ==
    \A i \in Slots :
        (Built(i) /\ call[i].op = "Resource") =>
            IF call[i].slug = None \/ call[i].slug = Some(<<>>)
            THEN res[i][1].slug = sluggify(PathStem(call[i].path))
            ELSE res[i][1].slug = call[i].slug[1]

\* C8 witness: a resource of p/A built with slug '' has the slug 'a'
C8_Witness ==
    /\ Built(1)
    /\ call[1].op = "Resource"
    /\ call[1].path = DirPath
    /\ call[1].slug = Some(<<>>)
    /\ res[1][1].slug = <<"a">>

\* C9: from_path(p) gives path = p.parent and the stored description path p
\* when p's extension is '.md' or '.html', and otherwise path = p and no
\* stored description path.
C9_FromPath ==
    \A i \in Slots :
        (Built(i) /\ call[i].op = "from_path") =>
            IF Suffix(PathName(call[i].path)) \in { <<".", "m", "d">>, <<".", "h", "t", "m", "l">> }
            THEN /\ res[i][1].path = Parent(call[i].path)
                 /\ res[i][1]._description_path = APath(call[i].path)
            ELSE /\ res[i][1].path = call[i].path
                 /\ res[i][1]._description_path = NoPath

\* C10: a synthesized description has the slug as title and a primary image
\* if and only if assets is non-empty; its body ends with the one section
\* whose heading is the slug, alone when there are no assets and otherwise
\* after a 'headline' container holding exactly the primary image, whose
\* src is an asset's path relative to the directory, alt its stem, and class
\* 'wide' if is_wide and 'tall' otherwise.
C10_SynthesizedShape ==
    \A i \in Slots :
        (/\ Built(i)
         /\ res[i][1].description # Unset
         /\ res[i][1].description[1].source = "constructed")
        => LET r == res[i][1]
               doc == r.description[1]
               as == r.assets[1]
               kids == doc.body.children
               section == kids[Len(kids)]
           IN  /\ doc.title = r.slug
               /\ (doc.primary_image = None) <=> (as = <<>>)
               /\ section.tag = "section"
               /\ Len(section.children) = 1
               /\ section.children[1].tag = "h1"
               /\ section.children[1].text = Some(r.slug)
               /\ as = <<>> => Len(kids) = 1
               /\ as # <<>> =>
                    /\ Len(kids) = 2
                    /\ kids[1].tag = "div"
                    /\ Attr(kids[1], "class") = Some(<<"h", "e", "a", "d", "l", "i", "n", "e">>)
                    /\ kids[1].children = <<doc.primary_image[1]>>
                    /\ doc.primary_image[1].tag = "img"
                    /\ \E k \in 1..Len(as) :
                           /\ Attr(doc.primary_image[1], "src") = Some(PathStr(RelativeTo(as[k], r.path)))
                           /\ Attr(doc.primary_image[1], "alt") = Some(PathStem(as[k]))
                           /\ Attr(doc.primary_image[1], "class")
                              = Some(IF is_wide(as[k]) THEN <<"w", "i", "d", "e">>
                                     ELSE <<"t", "a", "l", "l">>)

====
